---- MODULE Spec2Model ----
(***************************************************************************)
(* A model of mygit (src/main.cpp): a content-addressed object store, a    *)
(* plain-text index, a HEAD indirection with one branch ref, an append-    *)
(* only log, and the commands init, hash-object, write-tree, add, commit   *)
(* and checkout.                                                           *)
(*                                                                         *)
(* Strings are sequences of tokens (a token is one character, or a word    *)
(* that no operation splits).  A digest is represented by the              *)
(* serialization it is the SHA-1 of, i.e. SHA-1 is taken to be free of     *)
(* collisions; the empty string "" of the code is the empty sequence.      *)
(*                                                                         *)
(* A command is executed as the sequence of its file-system writes, in     *)
(* the order of the code: the action that starts the command computes the  *)
(* writes the way the code does, Step performs them one at a time, and no  *)
(* other command starts before the last write is done.                     *)
(***************************************************************************)
EXTENDS Integers, Sequences, FiniteSets, TLC

\* ------------------------------------------------------------------ bounds
MaxOps  == 5    \* commands and edits in one behaviour
MaxTime == 1    \* the wall clock runs from 0 to MaxTime seconds
ZLen    == 2    \* length of a compressed stream, in units
MaxKills == 1   \* kills of the process in one behaviour
MaxHistOps == 8 \* commands in one behaviour of add, commit and checkout
MaxBytes == 45  \* bytes of the data a compressed stream given to decompressData holds

\* ----------------------------------------------------------------- strings
SP == " "
BS == "\\"
NL == "\n"
NoSha == <<>>

REPO_DIR == <<".mygit">>
DOT == <<".">>

Max(S) == CHOOSE x \in S : \A y \in S : y <= x

\* byte value of a token (its first character)
Ord(c) ==
  CASE c = SP -> 32 [] c = "." -> 46 [] c = ".mygit" -> 46 [] c = BS -> 92
    [] c = "a" -> 97 [] c = "b" -> 98 [] c = "d" -> 100 [] c = "n" -> 110
    [] c = "main.cpp" -> 109 [] c = "x" -> 120 [] c = "y" -> 121
    [] OTHER -> 127

\* std::string operator< : lexicographic byte order
RECURSIVE StrLess(_, _)
StrLess(s, t) ==
  IF t = <<>> THEN FALSE
  ELSE IF s = <<>> THEN TRUE
  ELSE IF Ord(Head(s)) # Ord(Head(t)) THEN Ord(Head(s)) < Ord(Head(t))
  ELSE StrLess(Tail(s), Tail(t))

getFilename(path) ==
  LET seps == {i \in 1..Len(path) : path[i] \in {BS, "/"}} IN
  IF seps # {} THEN SubSeq(path, Max(seps) + 1, Len(path)) ELSE path

computeSHA1(data) == data

\* compress(): the stream of data, complete (len = ZLen)
compressData(data) == [zlib |-> data, len |-> ZLen]

\* the first k units of a stream: what is on disk when a write stops early
Truncated(bytes, k) ==
  IF k = 0 THEN [zlib |-> <<>>, len |-> 0] ELSE [bytes EXCEPT !.len = k]

\* uncompress(): Z_OK on a complete stream, an error ("") otherwise
decompressData(compressed) ==
  IF compressed.len = ZLen THEN compressed.zlib ELSE <<>>

\* ------------------------------------------------------- the working tree
\* Paths of the files the user works with and the contents they may hold.
pB  == <<"b">>
pAB == <<"a", SP, "b">>
pD  == <<"d">>
pDB == <<"d", BS, "b">>
pMain == <<"main.cpp">>   \* the source file of the tool, kept in the directory
FilePaths == {pB, pAB, pDB}
Contents  == {<<"x">>, <<"y">>}
\* bytes that read as the header of a commit whose tree is not in the store
CommitLike == <<"tree ", "n", NL>>

\* a node of the working tree: a directory, or a file with its bytes and
\* its owner-executable bit
File(c, x) == [dir |-> FALSE, content |-> c, exec |-> x]
Dir        == [dir |-> TRUE, content |-> <<>>, exec |-> FALSE]

InitWD == (pB :> File(<<"x">>, FALSE)) @@ (pAB :> File(<<"x">>, TRUE))
          @@ (pD :> Dir) @@ (pDB :> File(<<"y">>, FALSE))
          @@ (pMain :> File(<<"x">>, FALSE))

HeadsMaster == <<"refs", BS, "heads", BS, "master">>
HEADContent == <<"ref: ">> \o HeadsMaster \o <<NL>>

\* fs: the disk.  wd: working directory outside .mygit; repoDir, logsDir:
\* .mygit and .mygit\logs exist; files: which of HEAD, index, logs\HEAD
\* exist; HEAD, index, log: their contents; refs: the files under
\* .mygit\ named by a ref path; objects: digest -> bytes of the object file.
fileExists(fs, path) ==
  \/ path = DOT
  \/ path \in DOMAIN fs.wd
  \/ path = REPO_DIR /\ fs.repoDir

isDirectory(fs, path) ==
  \/ path = DOT
  \/ path \in DOMAIN fs.wd /\ fs.wd[path].dir
  \/ path = REPO_DIR /\ fs.repoDir

readFile(fs, path) ==
  IF path \in DOMAIN fs.wd /\ ~fs.wd[path].dir THEN fs.wd[path].content ELSE <<>>

getPermissions(fs, path) ==
  IF ~fileExists(fs, path) THEN "100644"
  ELSE IF isDirectory(fs, path) THEN "040000"
  ELSE IF fs.wd[path].exec THEN "100755" ELSE "100644"

IsPrefix(p, q) == Len(p) <= Len(q) /\ SubSeq(q, 1, Len(p)) = p
HasSep(s) == \E i \in 1..Len(s) : s[i] = BS

\* names of the immediate children of directory `path`
ChildNames(fs, path) ==
  IF path = DOT
  THEN {p \in DOMAIN fs.wd : ~HasSep(p)} \cup (IF fs.repoDir THEN {REPO_DIR} ELSE {})
  ELSE {SubSeq(p, Len(path) + 2, Len(p)) :
          p \in {q \in DOMAIN fs.wd :
                   /\ IsPrefix(path \o <<BS>>, q)
                   /\ ~HasSep(SubSeq(q, Len(path) + 2, Len(q)))}}

RECURSIVE Ascending(_)
Ascending(S) ==
  IF S = {} THEN <<>>
  ELSE LET m == CHOOSE x \in S : \A y \in S \ {x} : StrLess(x, y)
       IN <<m>> \o Ascending(S \ {m})

Reverse(s) == [i \in 1..Len(s) |-> s[Len(s) + 1 - i]]

\* fs::directory_iterator: the children in an order the file system picks
DirOrders == {"asc", "desc"}
directory_iterator(fs, path, ord) ==
  IF ord = "asc" THEN Ascending(ChildNames(fs, path))
  ELSE Reverse(Ascending(ChildNames(fs, path)))

FullPath(path, name) == IF path = DOT THEN name ELSE path \o <<BS>> \o name

\* ------------------------------------------------------------ object store
Put(f, k, v) == [x \in DOMAIN f \cup {k} |-> IF x = k THEN v ELSE f[x]]

\* writeObject: one write of the compressed content to the object's path
writeObject(sha, content) == <<"obj", sha, compressData(content)>>

readObject(fs, sha) ==
  IF sha \notin DOMAIN fs.objects THEN <<>> ELSE decompressData(fs.objects[sha])

\* createBlob that returns the digest without storing the blob
createBlob_NoWrite(fs, filepath) ==
  LET content == readFile(fs, filepath)
  IN IF content = <<>> /\ ~fileExists(fs, filepath)
     THEN [sha |-> NoSha, writes |-> <<>>]
     ELSE [sha |-> computeSHA1(<<"blob", content>>), writes |-> <<>>]

\* createBlob: [sha, writes]
createBlob(fs, filepath) ==
  LET content  == readFile(fs, filepath)
      blobData == <<"blob", content>>
      sha      == computeSHA1(blobData)
  IN IF content = <<>> /\ ~fileExists(fs, filepath)
     THEN [sha |-> NoSha, writes |-> <<>>]
     ELSE [sha |-> sha, writes |-> <<writeObject(sha, blobData)>>]

\* ------------------------------------------------------------------ index
\* first whitespace-delimited word of a text (operator>> on a string)
RECURSIVE SkipSpace(_)
SkipSpace(s) == IF s # <<>> /\ Head(s) = SP THEN SkipSpace(Tail(s)) ELSE s
RECURSIVE TakeWord(_)
TakeWord(s) == IF s = <<>> \/ Head(s) = SP THEN <<>> ELSE <<Head(s)>> \o TakeWord(Tail(s))
FirstWord(s) == TakeWord(SkipSpace(s))

\* a line of the index file: mode, digest and the text written for the path
readIndex(fs) ==
  IF "index" \notin fs.files THEN <<>>
  ELSE [i \in 1..Len(fs.index) |->
          [mode |-> fs.index[i][1], sha |-> fs.index[i][2],
           path |-> FirstWord(fs.index[i][3])]]

writeIndex(entries) ==
  <<"index", [i \in 1..Len(entries) |->
                <<entries[i].mode, entries[i].sha, entries[i].path>>]>>

\* --------------------------------------------------- performing one write
RemoveAll(wd, name) ==
  [p \in {q \in DOMAIN wd : q # name /\ ~IsPrefix(name \o <<BS>>, q)} |-> wd[p]]

ParentPath(path) ==
  LET seps == {i \in 1..Len(path) : path[i] = BS} IN
  IF seps = {} THEN DOT ELSE SubSeq(path, 1, Max(seps) - 1)
ParentIsDir(fs, path) == isDirectory(fs, ParentPath(path))

\* The effect of one write on the disk.  An ofstream whose directory is
\* missing, or whose path is a directory, fails silently; writeFile and
\* create_directories make the missing directories first.
Write(fs, w) ==
  CASE w[1] = "obj" ->
         [fs EXCEPT !.objects = Put(@, w[2], w[3]), !.repoDir = TRUE]
    [] w[1] = "index" ->
         IF fs.repoDir
         THEN [fs EXCEPT !.index = w[2], !.files = @ \cup {"index"}]
         ELSE fs
    [] w[1] = "clearindex" ->
         [fs EXCEPT !.index = <<>>, !.files = @ \cup {"index"}, !.repoDir = TRUE]
    [] w[1] = "mkdir" ->
         [fs EXCEPT !.repoDir = TRUE, !.logsDir = @ \/ w[2] = "logs"]
    [] w[1] = "head" ->
         [fs EXCEPT !.HEAD = w[2], !.files = @ \cup {"HEAD"}, !.repoDir = TRUE]
    [] w[1] = "ref" ->
         [fs EXCEPT !.refs = Put(@, w[2], w[3]), !.repoDir = TRUE]
    [] w[1] = "log" ->
         IF fs.logsDir
         THEN [fs EXCEPT !.log = Append(@, w[2]), !.files = @ \cup {"log"}]
         ELSE fs
    [] w[1] = "rm" ->
         IF w[2] = REPO_DIR
         THEN [fs EXCEPT !.repoDir = FALSE, !.logsDir = FALSE, !.files = {},
                         !.HEAD = <<>>, !.index = <<>>, !.log = <<>>,
                         !.refs = <<>>, !.objects = <<>>]
         ELSE [fs EXCEPT !.wd = RemoveAll(@, w[2])]
    [] w[1] = "wdmkdir" ->
         IF ParentIsDir(fs, w[2]) /\ ~fileExists(fs, w[2])
         THEN [fs EXCEPT !.wd = Put(@, w[2], Dir)]
         ELSE fs
    [] w[1] = "wdfile" ->
         IF ParentIsDir(fs, w[2]) /\ ~isDirectory(fs, w[2])
         THEN [fs EXCEPT !.wd = Put(@, w[2],
                 File(w[3], w[2] \in DOMAIN fs.wd /\ fs.wd[w[2]].exec))]
         ELSE fs

RECURSIVE WriteAll(_, _)
WriteAll(fs, ws) == IF ws = <<>> THEN fs ELSE WriteAll(Write(fs, Head(ws)), Tail(ws))

\* ------------------------------------------------------------------ trees
\* std::sort of tree entries by name
RECURSIVE SortByName(_)
InsertByName(e, sorted) ==
  LET k == Cardinality({i \in 1..Len(sorted) : ~StrLess(e.name, sorted[i].name)})
  IN SubSeq(sorted, 1, k) \o <<e>> \o SubSeq(sorted, k + 1, Len(sorted))
SortByName(entries) ==
  IF entries = <<>> THEN <<>>
  ELSE InsertByName(Head(entries), SortByName(Tail(entries)))

\* listDirectory and createTree: [entries | sha, writes], the writes being
\* those of the blobs and subtrees of the children, in iteration order
RECURSIVE createTree(_, _, _), listChildren(_, _, _, _)
listChildren(fs, path, names, ord) ==
  IF names = <<>> THEN [entries |-> <<>>, writes |-> <<>>]
  ELSE
    LET name == Head(names)
        rest == listChildren(fs, path, Tail(names), ord)
    IN IF name = DOT \/ name = <<"..">> \/ name = REPO_DIR THEN rest
       ELSE
         LET fullPath == FullPath(path, name)
             made == IF isDirectory(fs, fullPath)
                     THEN createTree(fs, fullPath, ord)
                     ELSE createBlob(fs, fullPath)
             te == [mode |-> getPermissions(fs, fullPath), name |-> name,
                    sha |-> made.sha]
         IN [entries |-> (IF made.sha # NoSha THEN <<te>> ELSE <<>>) \o rest.entries,
             writes  |-> made.writes \o rest.writes]

\* listDirectory without the sort: the entries in iteration order
listDirectory_NoSort(fs, path, ord) ==
  listChildren(fs, path, directory_iterator(fs, path, ord), ord)

listDirectory(fs, path, ord) ==
  LET l == listChildren(fs, path, directory_iterator(fs, path, ord), ord)
  IN [entries |-> SortByName(l.entries), writes |-> l.writes]

createTree(fs, path, ord) ==
  LET l        == listDirectory(fs, path, ord)
      treeData == <<"tree", l.entries>>
      sha      == computeSHA1(treeData)
  IN [sha |-> sha, writes |-> l.writes \o <<writeObject(sha, treeData)>>]

\* parseTree: the entries of a stored tree; nothing for an object that is
\* missing, does not decompress, or whose body is not a list of entries
parseTree(fs, treeSha) ==
  LET treeData == readObject(fs, treeSha)
  IN IF treeData = <<>> THEN <<>>
     ELSE IF treeData[1] = "tree" THEN treeData[2] ELSE <<>>

\* ---------------------------------------------------------------- commits
ZeroSha == <<"0000000000000000000000000000000000000000">>

\* createCommit that never writes the parent line
createCommit_NoParent(treeSha, parentSha, message, now) ==
  LET commitData == <<"commit", treeSha, NoSha, now, message>>
      sha        == computeSHA1(commitData)
  IN [sha |-> sha, writes |-> <<writeObject(sha, commitData)>>]

\* a commit: <<"commit", tree, parent or "", seconds, message>>
createCommit(treeSha, parentSha, message, now) ==
  LET parent     == IF parentSha # NoSha /\ parentSha # ZeroSha THEN parentSha ELSE NoSha
      commitData == <<"commit", treeSha, parent, now, message>>
      sha        == computeSHA1(commitData)
  IN [sha |-> sha, writes |-> <<writeObject(sha, commitData)>>]

\* getline: the lines of a text
RECURSIVE Lines(_)
Lines(s) ==
  IF s = <<>> THEN <<>>
  ELSE LET nls == {i \in 1..Len(s) : s[i] = NL}
       IN IF nls = {} THEN <<s>>
          ELSE LET k == CHOOSE i \in nls : \A j \in nls : i <= j
               IN <<SubSeq(s, 1, k - 1)>> \o Lines(SubSeq(s, k + 1, Len(s)))

\* the header loop of parseCommit: up to the first empty line, a line that
\* starts with "tree " or "parent " sets the field to the rest of the line
RECURSIVE parseHeader(_, _)
parseHeader(lines, info) ==
  IF lines = <<>> THEN info
  ELSE IF Head(lines) = <<>> THEN info
  ELSE LET line == Head(lines)
       IN parseHeader(Tail(lines),
            IF line[1] = "tree " THEN [info EXCEPT !.treeSha = Tail(line)]
            ELSE IF line[1] = "parent " THEN [info EXCEPT !.parentSha = Tail(line)]
            ELSE info)

\* parseCommit: the tree and parent that the "tree " and "parent " lines of
\* the payload of a stored object name, whatever the kind of the object.  A
\* commit written by createCommit has these lines; the payload of a blob is
\* the bytes of the file; the payload of a tree of this model is one line
\* that starts with a mode, or nothing.
parseCommit(fs, commitSha) ==
  LET commitData == readObject(fs, commitSha)
      none       == [treeSha |-> NoSha, parentSha |-> NoSha]
  IN IF commitData = <<>> THEN none
     ELSE IF commitData[1] = "commit"
          THEN [treeSha |-> commitData[2], parentSha |-> commitData[3]]
     ELSE IF commitData[1] = "blob" THEN parseHeader(Lines(commitData[2]), none)
     ELSE none

\* createTreeFromIndex without the early return on an empty index
createTreeFromIndex_NoEmptyCheck(fs) ==
  LET index    == readIndex(fs)
      treeData == <<"tree", [i \in 1..Len(index) |->
                      [mode |-> index[i].mode, name |-> getFilename(index[i].path),
                       sha |-> index[i].sha]]>>
      sha      == computeSHA1(treeData)
  IN [sha |-> sha, writes |-> <<writeObject(sha, treeData)>>]

\* createTreeFromIndex that returns the digest without storing the tree
createTreeFromIndex_NoWrite(fs) ==
  LET index    == readIndex(fs)
      treeData == <<"tree", [i \in 1..Len(index) |->
                      [mode |-> index[i].mode, name |-> getFilename(index[i].path),
                       sha |-> index[i].sha]]>>
  IN IF index = <<>> THEN [sha |-> NoSha, writes |-> <<>>]
     ELSE [sha |-> computeSHA1(treeData), writes |-> <<>>]

\* createTreeFromIndex: [sha, writes]; "" when the index is empty
createTreeFromIndex(fs) ==
  LET index    == readIndex(fs)
      treeData == <<"tree", [i \in 1..Len(index) |->
                      [mode |-> index[i].mode, name |-> getFilename(index[i].path),
                       sha |-> index[i].sha]]>>
      sha      == computeSHA1(treeData)
  IN IF index = <<>> THEN [sha |-> NoSha, writes |-> <<>>]
     ELSE [sha |-> sha, writes |-> <<writeObject(sha, treeData)>>]

\* ------------------------------------------------------------- references
StripNL(s) == IF s # <<>> /\ s[Len(s)] = NL THEN SubSeq(s, 1, Len(s) - 1) ELSE s

getHEAD(fs) ==
  IF "HEAD" \notin fs.files THEN NoSha
  ELSE IF fs.HEAD # <<>> /\ Head(fs.HEAD) = "ref: "
       THEN LET refPath == StripNL(Tail(fs.HEAD))
            IN IF refPath \in DOMAIN fs.refs
               THEN StripNL(fs.refs[refPath])[1]
               ELSE NoSha
       ELSE NoSha

updateHEAD(fs, commitSha) ==
  LET content == IF "HEAD" \in fs.files THEN fs.HEAD ELSE <<>>
  IN IF content # <<>> /\ Head(content) = "ref: "
     THEN <<<<"ref", StripNL(Tail(content)), <<commitSha, NL>>>>>>
     ELSE <<>>

\* updateLog that appends nothing
updateLog_None(commitSha, parentSha, message, now) == <<>>

\* one record of logs\HEAD: commit, parent ("" when the line is left out),
\* message, timestamp
updateLog(commitSha, parentSha, message, now) ==
  <<<<"log", <<commitSha, parentSha, message, now>>>>>>

\* ---------------------------------------------------------------- restore
Payload(data) == IF data[1] = "blob" THEN data[2] ELSE Tail(data)

RECURSIVE restoreTree(_, _, _), restoreEntries(_, _, _)
restoreEntries(fs, entries, prefix) ==
  IF entries = <<>> THEN <<>>
  ELSE
    LET entry    == Head(entries)
        fullPath == IF prefix = <<>> THEN entry.name ELSE prefix \o <<BS>> \o entry.name
        ws ==
          IF entry.name = <<>> THEN <<>>
          ELSE IF entry.mode = "040000"
          THEN LET mk == IF ~fileExists(fs, fullPath)
                         THEN <<<<"wdmkdir", fullPath>>>> ELSE <<>>
                   threw == mk # <<>> /\ ~ParentIsDir(fs, fullPath)
               IN IF threw THEN <<>>
                  ELSE mk \o restoreTree(WriteAll(fs, mk), entry.sha, fullPath)
          ELSE LET blobData == readObject(fs, entry.sha)
               IN IF blobData = <<>> THEN <<>>
                  ELSE <<<<"wdfile", fullPath, Payload(blobData)>>>>
    IN ws \o restoreEntries(WriteAll(fs, ws), Tail(entries), prefix)

restoreTree(fs, treeSha, prefix) == restoreEntries(fs, parseTree(fs, treeSha), prefix)

\* --------------------------------------------------------------- commands
\* Each command: [out, todo], what it prints (a digest, or "") and its writes.
\* what init prints
AlreadyInitialized == <<"Repository already initialized">>
InitializedEmpty   == <<"Initialized empty repository in ">> \o REPO_DIR

\* cmdInit without the test for an existing repository
cmdInit_Always(fs) ==
  [out |-> InitializedEmpty,
   todo |-> << <<"mkdir", "objects">>, <<"mkdir", "refs">>,
               <<"mkdir", "heads">>, <<"mkdir", "logs">>,
               <<"head", HEADContent>>, <<"clearindex">> >>]

cmdInit(fs) ==
  IF fileExists(fs, REPO_DIR) THEN [out |-> AlreadyInitialized, todo |-> <<>>]
  ELSE [out |-> InitializedEmpty,
        todo |-> << <<"mkdir", "objects">>, <<"mkdir", "refs">>,
                    <<"mkdir", "heads">>, <<"mkdir", "logs">>,
                    <<"head", HEADContent>>, <<"clearindex">> >>]

cmdHashObject(fs, filepath) ==
  LET b == createBlob(fs, filepath) IN [out |-> b.sha, todo |-> b.writes]

\* cmdCatFile: the payload, its size or the kind of a stored object; nothing
\* when the object cannot be read
cmdCatFile(fs, sha, flag) ==
  LET data == readObject(fs, sha)
  IN [out  |-> IF data = <<>> THEN <<>>
               ELSE IF flag = "p" THEN Payload(data)
               ELSE IF flag = "s" THEN <<Len(Payload(data))>>
               ELSE IF flag = "t" THEN <<data[1]>>
               ELSE <<>>,
      todo |-> <<>>]

cmdWriteTree(fs, ord) ==
  LET t == createTree(fs, DOT, ord) IN [out |-> t.sha, todo |-> t.writes]

RECURSIVE addToIndex(_, _, _), addChildren(_, _, _, _)
addChildren(fs, path, names, ord) ==
  IF names = <<>> THEN <<>>
  ELSE LET name == Head(names)
           ws   == IF name = DOT \/ name = <<"..">> \/ name = REPO_DIR THEN <<>>
                   ELSE addToIndex(fs, FullPath(path, name), ord)
       IN ws \o addChildren(WriteAll(fs, ws), path, Tail(names), ord)

addToIndex(fs, path, ord) ==
  IF ~fileExists(fs, path) THEN <<>>
  ELSE IF isDirectory(fs, path)
  THEN addChildren(fs, path, directory_iterator(fs, path, ord), ord)
  ELSE
    LET index == readIndex(fs)
        blob  == createBlob(fs, path)
        kept  == SelectSeq(index, LAMBDA e : e.path # path)
        newEntry == [mode |-> getPermissions(fs, path), sha |-> blob.sha, path |-> path]
    IN IF blob.sha = NoSha THEN <<>>
       ELSE blob.writes \o <<writeIndex(Append(kept, newEntry))>>

cmdAdd(fs, path, ord) == [out |-> <<>>, todo |-> addToIndex(fs, path, ord)]

\* cmdCommit that leaves the index as it is
cmdCommit_KeepIndex(fs, message, now, logNow) ==
  LET tree      == createTreeFromIndex(fs)
      parentSha == getHEAD(fs)
      commit    == createCommit(tree.sha, parentSha, message, now)
  IN IF tree.sha = NoSha THEN [out |-> <<>>, todo |-> <<>>]
     ELSE [out  |-> commit.sha,
           todo |-> tree.writes \o commit.writes \o updateHEAD(fs, commit.sha)
                    \o updateLog(commit.sha, parentSha, message, logNow)]

\* cmdCommit that clears the index before it appends to the log
cmdCommit_ClearFirst(fs, message, now, logNow) ==
  LET tree      == createTreeFromIndex(fs)
      parentSha == getHEAD(fs)
      commit    == createCommit(tree.sha, parentSha, message, now)
  IN IF tree.sha = NoSha THEN [out |-> <<>>, todo |-> <<>>]
     ELSE [out  |-> commit.sha,
           todo |-> tree.writes \o commit.writes \o updateHEAD(fs, commit.sha)
                    \o << <<"clearindex">> >>
                    \o updateLog(commit.sha, parentSha, message, logNow)]

cmdCommit(fs, message, now, logNow) ==
  LET tree      == createTreeFromIndex(fs)
      parentSha == getHEAD(fs)
      commit    == createCommit(tree.sha, parentSha, message, now)
  IN IF tree.sha = NoSha THEN [out |-> <<>>, todo |-> <<>>]
     ELSE [out  |-> commit.sha,
           todo |-> tree.writes \o commit.writes \o updateHEAD(fs, commit.sha)
                    \o updateLog(commit.sha, parentSha, message, logNow)
                    \o << <<"clearindex">> >>]

\* the protected set without the repository directory
Protected_NoRepo == {<<"mygit.exe">>, <<"main.cpp">>, <<"makefile">>}

Protected == {REPO_DIR, <<"mygit.exe">>, <<"main.cpp">>, <<"makefile">>}

\* cmdCheckout that also empties the index
cmdCheckout_ClearIndex(fs, commitSha, ord) ==
  LET info  == parseCommit(fs, commitSha)
      names == SelectSeq(directory_iterator(fs, DOT, ord),
                         LAMBDA n : n \notin Protected \cup {DOT, <<"..">>})
      rms   == [i \in 1..Len(names) |-> <<"rm", names[i]>>]
  IN IF info.treeSha = NoSha THEN [out |-> <<>>, todo |-> <<>>]
     ELSE [out  |-> commitSha,
           todo |-> rms \o restoreTree(WriteAll(fs, rms), info.treeSha, <<>>)
                    \o updateHEAD(fs, commitSha) \o << <<"clearindex">> >>]

\* cmdCheckout without the clearing of the working directory
cmdCheckout_NoClear(fs, commitSha, ord) ==
  LET info == parseCommit(fs, commitSha)
  IN IF info.treeSha = NoSha THEN [out |-> <<>>, todo |-> <<>>]
     ELSE [out  |-> commitSha,
           todo |-> restoreTree(fs, info.treeSha, <<>>) \o updateHEAD(fs, commitSha)]

cmdCheckout(fs, commitSha, ord) ==
  LET info  == parseCommit(fs, commitSha)
      names == SelectSeq(directory_iterator(fs, DOT, ord),
                         LAMBDA n : n \notin Protected \cup {DOT, <<"..">>})
      rms   == [i \in 1..Len(names) |-> <<"rm", names[i]>>]
  IN IF info.treeSha = NoSha THEN [out |-> <<>>, todo |-> <<>>]
     ELSE [out  |-> commitSha,
           todo |-> rms \o restoreTree(WriteAll(fs, rms), info.treeSha, <<>>)
                    \o updateHEAD(fs, commitSha)]

\* the command stops on an "Error:" diagnostic: an object that cannot be read
\* (cat-file), an invalid commit (checkout), a path that does not exist (add,
\* hash-object)
reportsError(fs, command, arg) ==
  CASE command = "cat-file"    -> readObject(fs, arg) = <<>>
    [] command = "checkout"    -> parseCommit(fs, arg).treeSha = NoSha
    [] command = "add"         -> ~fileExists(fs, arg)
    [] command = "hash-object" -> ~fileExists(fs, arg)
    [] OTHER                   -> FALSE

\* main: the exit code of `mygit command ...` called with argc words
main(command, argc) ==
  IF argc < 2 THEN 1
  ELSE IF command \in {"init", "hash-object", "write-tree", "ls-tree", "add",
                       "commit", "log"} THEN 0
  ELSE IF command = "cat-file" THEN (IF argc < 4 THEN 1 ELSE 0)
  ELSE IF command = "checkout" THEN (IF argc < 3 THEN 1 ELSE 0)
  ELSE 1

\* ------------------------------------------------------------------ state
VARIABLES
  disk,    \* the file system (see fs above)
  run,     \* the command being executed, or the last one: its name, its
           \* argument, what it prints, and the writes it has still to do
  used,    \* how many commands and edits the behaviour has made
  clock,   \* the wall clock, in seconds
  kills,   \* how many times the process has been killed
  dec      \* a call of decompressData: its argument, the size of its output
           \* buffer, how many times it has called uncompress, its result

vars == <<disk, run, used, clock, kills, dec>>

\* the arguments the commands are given
Messages  == {"m1"}
NoPath    == <<"n">>
NoObject  == <<"blob", <<"n">>>>
EditPaths == {pB}
HashPaths == {pB, NoPath}
AddPaths  == {pB, pAB, pD, DOT, NoPath}
CatFlags  == {"p", "s", "t"}
\* the number of words on the command line of each command
Argc(command) ==
  CASE command \in {"cat-file", "commit"}            -> 4
    [] command \in {"hash-object", "add", "checkout"} -> 3
    [] OTHER                                          -> 2

NoRun == [cmd |-> "none", arg |-> <<>>, out |-> <<>>, todo |-> <<>>,
          err |-> FALSE, code |-> 0]
Idle == run = NoRun
\* the command has done its last write and has not yet returned
Done(cmd) == run.cmd = cmd /\ run.todo = <<>>

Begin(cmd, arg, r) ==
  run' = [cmd |-> cmd, arg |-> arg, out |-> r.out, todo |-> r.todo,
          err |-> reportsError(disk, cmd, arg), code |-> main(cmd, Argc(cmd))]

\* no call of decompressData is being followed
NoCall == [pc |-> "none", compressed |-> [zlib |-> <<>>, len |-> 0],
           uncompressedSize |-> 0, tries |-> 0, ret |-> <<>>, failed |-> FALSE]

Init ==
  /\ disk = [wd |-> InitWD, repoDir |-> FALSE, logsDir |-> FALSE, files |-> {},
             HEAD |-> <<>>, index |-> <<>>, log |-> <<>>,
             refs |-> <<>>, objects |-> <<>>]
  /\ run = NoRun
  /\ used = 0
  /\ clock = 0
  /\ kills = 0
  /\ dec = NoCall

\* the user changes the bytes of a file of the working directory
Edit ==
  /\ Idle /\ used < MaxOps
  /\ \E p \in EditPaths, c \in Contents :
       /\ ParentIsDir(disk, p)
       /\ readFile(disk, p) # c
       /\ disk' = Write(disk, <<"wdfile", p, c>>)
  /\ used' = used + 1
  /\ UNCHANGED <<run, clock, kills, dec>>

\* the user writes into a file the text of the header of a commit
EditPayload ==
  /\ Idle /\ used < MaxOps
  /\ \E p \in EditPaths :
       /\ ParentIsDir(disk, p)
       /\ readFile(disk, p) # CommitLike
       /\ disk' = Write(disk, <<"wdfile", p, CommitLike>>)
  /\ used' = used + 1
  /\ UNCHANGED <<run, clock, kills, dec>>

CmdInit ==
  /\ Idle /\ used < MaxOps
  /\ Begin("init", <<>>, cmdInit(disk))
  /\ used' = used + 1
  /\ UNCHANGED <<disk, clock, kills, dec>>

CmdHashObject ==
  /\ Idle /\ used < MaxOps
  /\ \E p \in HashPaths : Begin("hash-object", p, cmdHashObject(disk, p))
  /\ used' = used + 1
  /\ UNCHANGED <<disk, clock, kills, dec>>

CmdCatFile ==
  /\ Idle /\ used < MaxOps
  /\ \E sha \in DOMAIN disk.objects \cup {NoObject}, flag \in CatFlags :
       Begin("cat-file", sha, cmdCatFile(disk, sha, flag))
  /\ used' = used + 1
  /\ UNCHANGED <<disk, clock, kills, dec>>

CmdWriteTree ==
  /\ Idle /\ used < MaxOps
  /\ \E ord \in DirOrders : Begin("write-tree", <<>>, cmdWriteTree(disk, ord))
  /\ used' = used + 1
  /\ UNCHANGED <<disk, clock, kills, dec>>

CmdAdd ==
  /\ Idle /\ used < MaxOps
  /\ \E p \in AddPaths, ord \in DirOrders : Begin("add", p, cmdAdd(disk, p, ord))
  /\ used' = used + 1
  /\ UNCHANGED <<disk, clock, kills, dec>>

\* time(nullptr) is called for the commit object and again for the log record
CmdCommit ==
  /\ Idle /\ used < MaxOps
  /\ \E m \in Messages, now \in clock..MaxTime :
       \E logNow \in now..MaxTime :
         LET r == cmdCommit(disk, m, now, logNow) IN
         /\ Begin("commit", <<m>>, r)
         /\ clock' = IF r.todo = <<>> THEN clock ELSE logNow
  /\ used' = used + 1
  /\ UNCHANGED <<disk, kills, dec>>

CmdCheckout ==
  /\ Idle /\ used < MaxOps
  /\ \E c \in DOMAIN disk.objects \cup {NoObject}, ord \in DirOrders :
       Begin("checkout", c, cmdCheckout(disk, c, ord))
  /\ used' = used + 1
  /\ UNCHANGED <<disk, clock, kills, dec>>

\* the command under way performs its next write
Step ==
  /\ run.todo # <<>>
  /\ disk' = Write(disk, Head(run.todo))
  /\ run' = [run EXCEPT !.todo = Tail(@)]
  /\ UNCHANGED <<used, clock, kills, dec>>

\* the command returns to the shell
Return ==
  /\ run.cmd # "none" /\ run.todo = <<>>
  /\ run' = NoRun
  /\ UNCHANGED <<disk, used, clock, kills, dec>>

Next ==
  \/ Edit \/ CmdInit \/ CmdHashObject \/ CmdCatFile \/ CmdWriteTree \/ CmdAdd
  \/ CmdCommit \/ CmdCheckout \/ Step \/ Return

Spec == Init /\ [][Next]_vars

\* the process is killed while a command is under way: between two writes,
\* or inside the write of an object file, which then holds the first k units
\* of the compressed stream (the file is written in place)
Interrupt ==
  /\ run.todo # <<>> /\ kills < MaxKills
  /\ \/ disk' = disk
     \/ /\ Head(run.todo)[1] = "obj"
        /\ \E k \in 0..(ZLen - 1) :
             disk' = Write(disk, <<"obj", Head(run.todo)[2],
                                   Truncated(Head(run.todo)[3], k)>>)
  /\ run' = NoRun
  /\ kills' = kills + 1
  /\ UNCHANGED <<used, clock, dec>>

NextCrash == Next \/ Interrupt

SpecCrash == Init /\ [][NextCrash]_vars

\* The commands on files that may also hold the text of a commit header.
NextPayload == Next \/ EditPayload

SpecPayload == Init /\ [][NextPayload]_vars

\* Histories of one file: after init, the user stages b, commits, and checks
\* out a commit of the store, for up to MaxHistOps commands.
HistAdd ==
  /\ Idle /\ used < MaxHistOps
  /\ Begin("add", pB, cmdAdd(disk, pB, "asc"))
  /\ used' = used + 1
  /\ UNCHANGED <<disk, clock, kills, dec>>

HistCommit ==
  /\ Idle /\ used < MaxHistOps
  /\ \E m \in Messages, now \in clock..MaxTime :
       LET r == cmdCommit(disk, m, now, now) IN
       /\ Begin("commit", <<m>>, r)
       /\ clock' = IF r.todo = <<>> THEN clock ELSE now
  /\ used' = used + 1
  /\ UNCHANGED <<disk, kills, dec>>

HistCheckout ==
  /\ Idle /\ used < MaxHistOps
  /\ \E c \in {d \in DOMAIN disk.objects : parseCommit(disk, d).treeSha # NoSha} :
       Begin("checkout", c, cmdCheckout(disk, c, "asc"))
  /\ used' = used + 1
  /\ UNCHANGED <<disk, clock, kills, dec>>

NextHistory == CmdInit \/ HistAdd \/ HistCommit \/ HistCheckout \/ Step \/ Return

SpecHistory == Init /\ [][NextHistory]_vars

\* ------------------------------------------------- the loop of decompressData
\* zlib's uncompress(dest, &destLen, source, sourceLen), by its contract:
\* Z_OK and the size of the data when the stream is complete and the data
\* fits in destLen bytes; Z_BUF_ERROR when the output buffer has been filled
\* and more output is to come (destLen is then the room that was given);
\* Z_DATA_ERROR when the input ends before the stream does, an empty input
\* and an output buffer of no room included.  A stream cut after k of its
\* ZLen units yields the first k/ZLen of the data.
uncompress_ShortOnEmpty(destLen, source) ==
  LET n       == Len(source.zlib)
      partial == (n * source.len) \div ZLen
  IN IF source.len = ZLen
     THEN IF destLen >= n THEN [result |-> "Z_OK", destLen |-> n]
          ELSE [result |-> "Z_BUF_ERROR", destLen |-> destLen]
     ELSE IF destLen > partial
          THEN [result |-> "Z_DATA_ERROR", destLen |-> partial]
          ELSE [result |-> "Z_BUF_ERROR", destLen |-> destLen]

uncompress(destLen, source) ==
  LET n       == Len(source.zlib)
      partial == (n * source.len) \div ZLen
  IN IF source.len = ZLen
     THEN IF destLen >= n THEN [result |-> "Z_OK", destLen |-> n]
          ELSE [result |-> "Z_BUF_ERROR", destLen |-> destLen]
     ELSE IF destLen = 0 \/ destLen > partial
          THEN [result |-> "Z_DATA_ERROR", destLen |-> partial]
          ELSE [result |-> "Z_BUF_ERROR", destLen |-> destLen]

\* the byte strings decompressData is called with: what an object file may
\* hold, a complete stream of up to MaxBytes bytes of data, such a stream
\* cut short, or nothing
Bytes(n) == [i \in 1..n |-> "x"]
Streams ==
  {[zlib |-> Bytes(n), len |-> k] : n \in 0..MaxBytes, k \in 1..ZLen}
    \cup {Truncated(compressData(<<>>), 0)}

InitDecompress ==
  /\ disk = [wd |-> InitWD, repoDir |-> FALSE, logsDir |-> FALSE, files |-> {},
             HEAD |-> <<>>, index |-> <<>>, log |-> <<>>,
             refs |-> <<>>, objects |-> <<>>]
  /\ run = NoRun
  /\ used = 0
  /\ clock = 0
  /\ kills = 0
  /\ \E c \in Streams :
       dec = [pc |-> "call", compressed |-> c, uncompressedSize |-> 0,
              tries |-> 0, ret |-> <<>>, failed |-> FALSE]

\* entry: the first guess of the size of the output
DecompressCall ==
  /\ dec.pc = "call"
  /\ dec' = [dec EXCEPT !.pc = "loop",
                        !.uncompressedSize = dec.compressed.len * 10]
  /\ UNCHANGED <<disk, run, used, clock, kills>>

\* one turn of the loop: resize, uncompress, and return or double the size
DecompressTry ==
  /\ dec.pc = "loop"
  /\ LET r == uncompress(dec.uncompressedSize, dec.compressed)
     IN dec' =
          IF r.result = "Z_OK"
          THEN [dec EXCEPT !.pc = "done", !.tries = @ + 1,
                           !.uncompressedSize = r.destLen,
                           !.ret = SubSeq(dec.compressed.zlib, 1, r.destLen)]
          ELSE IF r.result = "Z_BUF_ERROR"
          THEN [dec EXCEPT !.tries = @ + 1, !.uncompressedSize = r.destLen * 2]
          ELSE [dec EXCEPT !.pc = "done", !.tries = @ + 1,
                           !.uncompressedSize = r.destLen,
                           !.ret = <<>>, !.failed = TRUE]
  /\ UNCHANGED <<disk, run, used, clock, kills>>

NextDecompress == DecompressCall \/ DecompressTry

\* the loop is not suspended: the process keeps running
SpecDecompress ==
  InitDecompress /\ [][NextDecompress]_vars /\ WF_vars(NextDecompress)

\* ================================================================= claims
Stored(d)   == d \in DOMAIN disk.objects
Initialised == "HEAD" \in disk.files
\* the file HEAD's indirection names, relative to .mygit
HeadTarget  == StripNL(Tail(disk.HEAD))

\* C1: after a commit that found a non-empty index in an initialised
\* repository, the index file is empty and the file HEAD's indirection names
\* (refs\heads\master) holds the digest of the commit object just written
C1_CommitPostcondition ==
  (Done("commit") /\ run.out # NoSha /\ Initialised) =>
    /\ "index" \in disk.files /\ disk.index = <<>> /\ readIndex(disk) = <<>>
    /\ HeadTarget = HeadsMaster
    /\ HeadsMaster \in DOMAIN disk.refs
    /\ disk.refs[HeadsMaster] = <<run.out, NL>>
    /\ Stored(run.out)
    /\ readObject(disk, run.out) = run.out
    /\ run.out[1] = "commit"

\* a second commit (one with a parent) has just finished
C1_Witness ==
  Done("commit") /\ run.out # NoSha /\ Initialised /\ run.out[3] # NoSha

\* the blob entries of a tree, transitively: <<path, digest>>
RECURSIVE TreeFiles(_, _, _)
TreeFiles(fs, treeSha, prefix) ==
  LET entries == parseTree(fs, treeSha)
      full(i) == IF prefix = <<>> THEN entries[i].name
                 ELSE prefix \o <<BS>> \o entries[i].name
  IN UNION {IF entries[i].mode = "040000"
            THEN TreeFiles(fs, entries[i].sha, full(i))
            ELSE {<<full(i), entries[i].sha>>} : i \in 1..Len(entries)}

\* C2: after checkout(c) of a commit, every entry of c's tree is a file of
\* the working directory, at the entry's path, with the bytes of the blob the
\* entry references
C2_CheckoutRestoresEveryEntry ==
  (Done("checkout") /\ run.out # NoSha /\ Initialised) =>
    \A f \in TreeFiles(disk, parseCommit(disk, run.out).treeSha, <<>>) :
      /\ f[1] \in DOMAIN disk.wd
      /\ ~disk.wd[f[1]].dir
      /\ disk.wd[f[1]].content = Payload(readObject(disk, f[2]))

\* C3: in a repository made by init, loading the index never yields two
\* entries with the same path
C3_IndexPathsUnique ==
  Initialised =>
    LET index == readIndex(disk)
    IN \A i, j \in 1..Len(index) : index[i].path = index[j].path => i = j

\* C4: in a repository made by init, every stored tree has its entries in
\* strictly increasing byte order of name
C4_TreeEntriesStrictlyIncreasing ==
  Initialised =>
    \A d \in DOMAIN disk.objects :
      LET entries == parseTree(disk, d)
      IN \A i \in 1..(Len(entries) - 1) :
           StrLess(entries[i].name, entries[i + 1].name)

\* C5: the tree and the parent of every stored commit, and the digest of
\* every entry of a stored tree, name an object file of the store
C5_ReferencesResolve ==
  \A d \in DOMAIN disk.objects :
    LET info    == parseCommit(disk, d)
        entries == parseTree(disk, d)
    IN /\ info.treeSha # NoSha => Stored(info.treeSha)
       /\ info.parentSha # NoSha => Stored(info.parentSha)
       /\ \A i \in 1..Len(entries) : Stored(entries[i].sha)

\* the store holds a commit (which names its tree) and a tree with a subtree
C5_Witness ==
  /\ \E d \in DOMAIN disk.objects : parseCommit(disk, d).treeSha # NoSha
  /\ \E d \in DOMAIN disk.objects :
       \E i \in 1..Len(parseTree(disk, d)) : parseTree(disk, d)[i].mode = "040000"

\* C6: every write that adds a tree finds the objects of its entries in the
\* store, every write that adds a commit finds its tree there; and a commit
\* in an initialised repository moves the ref only once its commit object is
\* stored, appends the log record only once the ref names the commit and
\* while the index is still full, and clears the index only once the log
\* ends with the record of the commit
C6_WriteOrder ==
  [][/\ \A d \in DOMAIN disk'.objects \ DOMAIN disk.objects :
          /\ \A i \in 1..Len(parseTree(disk', d)) :
               parseTree(disk', d)[i].sha \in DOMAIN disk.objects
          /\ parseCommit(disk', d).treeSha # NoSha =>
               parseCommit(disk', d).treeSha \in DOMAIN disk.objects
     /\ (run.cmd = "commit" /\ run.todo # <<>> /\ Initialised) =>
          /\ disk'.refs # disk.refs =>
               /\ Stored(run.out) /\ Stored(run.out[2])
               /\ disk'.refs[HeadsMaster] = <<run.out, NL>>
               /\ disk.index # <<>>
          /\ disk'.log # disk.log =>
               /\ getHEAD(disk) = run.out
               /\ disk.index # <<>>
               /\ disk'.log = Append(disk.log, disk'.log[Len(disk'.log)])
               /\ disk'.log[Len(disk'.log)][1] = run.out
          /\ disk'.index # disk.index =>
               /\ disk'.index = <<>>
               /\ getHEAD(disk) = run.out
               /\ disk.log # <<>> /\ disk.log[Len(disk.log)][1] = run.out
    ]_vars

\* a commit has moved the ref and has the log and the index still to write,
\* in a store that holds a tree with a subtree
C6_Witness ==
  /\ run.cmd = "commit" /\ Len(run.todo) = 2 /\ Initialised
  /\ getHEAD(disk) = run.out
  /\ \E d \in DOMAIN disk.objects :
       \E i \in 1..Len(parseTree(disk, d)) : parseTree(disk, d)[i].mode = "040000"

\* C7: in a repository made by init, every object file decompresses to a
\* serialization whose digest is the digest its path spells, also after an
\* interruption
C7_ObjectMatchesDigest ==
  Initialised =>
    \A d \in DOMAIN disk.objects :
      computeSHA1(decompressData(disk.objects[d])) = d

\* C8: no step of a command removes an object or changes what it decodes to
C8_StoreOnlyGrows ==
  [][\A d \in DOMAIN disk.objects :
       /\ d \in DOMAIN disk'.objects
       /\ readObject(disk', d) = readObject(disk, d)]_vars

\* a checkout has cleared and restored the working directory
C8_Witness ==
  /\ Done("checkout") /\ run.out # NoSha
  /\ Cardinality(DOMAIN disk.objects) >= 3

\* C9: a step of checkout changes nothing of the repository but the file
\* HEAD's indirection names
C9_CheckoutFrame ==
  [][run.cmd = "checkout" =>
       /\ disk'.objects = disk.objects
       /\ disk'.index = disk.index
       /\ disk'.log = disk.log
       /\ disk'.HEAD = disk.HEAD
       /\ disk'.files = disk.files
       /\ disk'.repoDir = disk.repoDir /\ disk'.logsDir = disk.logsDir
       /\ \A r \in DOMAIN disk'.refs :
            r = HeadTarget \/ (r \in DOMAIN disk.refs /\ disk'.refs[r] = disk.refs[r])
    ]_vars

\* a checkout has finished in a repository whose index holds an entry
C9_Witness ==
  /\ Done("checkout") /\ run.out # NoSha
  /\ readIndex(disk) # <<>>
  /\ getHEAD(disk) = run.out

\* C10: a commit that finds the index empty prints no digest, writes
\* nothing and leaves the disk as it is
C10_EmptyCommitIsNoOp ==
  [][(Idle /\ run'.cmd = "commit" /\ readIndex(disk) = <<>>) =>
       /\ run'.todo = <<>>
       /\ run'.out = NoSha
       /\ disk' = disk]_vars

\* an empty commit right after a commit that succeeded
C10_Witness ==
  /\ Done("commit") /\ run.out = NoSha
  /\ Initialised /\ disk.log # <<>> /\ readIndex(disk) = <<>>

\* C11: the commit object a commit writes records as parent the digest that
\* the file HEAD's indirection names held when the commit started; it has no
\* parent exactly when that file did not exist or held the all-zero digest
C11_ParentIsHeadAtStart ==
  [][(Idle /\ run'.cmd = "commit" /\ run'.out # NoSha) =>
       LET h       == getHEAD(disk)
           refFile == "HEAD" \in disk.files /\ HeadTarget \in DOMAIN disk.refs
           parent  == run'.out[3]
       IN /\ \E i \in 1..Len(run'.todo) :
               run'.todo[i] = writeObject(run'.out, run'.out)
          /\ run'.out[1] = "commit"
          /\ (parent = NoSha) <=> (~refFile \/ h = ZeroSha)
          /\ parent # NoSha =>
               /\ parent = h
               /\ disk.refs[HeadTarget] = <<parent, NL>>
     ]_vars

\* a commit has stored a commit object whose parent is a stored root commit
C11_Witness ==
  /\ Done("commit") /\ run.out # NoSha /\ Stored(run.out)
  /\ parseCommit(disk, run.out).parentSha # NoSha
  /\ Stored(parseCommit(disk, run.out).parentSha)
  /\ parseCommit(disk, parseCommit(disk, run.out).parentSha).parentSha = NoSha

\* C12: no stored commit is the parent of two different stored commits
C12_HistoryIsLinear ==
  \A c1, c2 \in DOMAIN disk.objects :
    (/\ parseCommit(disk, c1).parentSha # NoSha
     /\ parseCommit(disk, c1).parentSha = parseCommit(disk, c2).parentSha) => c1 = c2

\* every tree and blob that a tree references, transitively, is in the store
\* and decompresses
RECURSIVE Restorable(_, _)
Restorable(fs, treeSha) ==
  /\ readObject(fs, treeSha) # <<>>
  /\ \A i \in 1..Len(parseTree(fs, treeSha)) :
       LET entry == parseTree(fs, treeSha)[i]
       IN IF entry.mode = "040000" THEN Restorable(fs, entry.sha)
          ELSE readObject(fs, entry.sha) # <<>>

\* C13: a checkout that finds a tree or blob of the commit missing or
\* undecodable does not write the file HEAD's indirection names, and a
\* checkout writes that file only as its last write, after every entry
C13_CheckoutAbortsBeforeHeadMoves ==
  [][(Idle /\ run'.cmd = "checkout") =>
       /\ ~Restorable(disk, parseCommit(disk, run'.arg).treeSha) =>
            \A i \in 1..Len(run'.todo) : run'.todo[i][1] # "ref"
       /\ \A i \in 1..Len(run'.todo) :
            run'.todo[i][1] = "ref" => i = Len(run'.todo)
     ]_vars

\* C14: a command that stopped on an error exits with code 1, any other
\* command with code 0
C14_ExitCodeTellsFailure ==
  (run.cmd # "none" /\ run.todo = <<>>) =>
    run.code = (IF run.err THEN 1 ELSE 0)

\* C15: add of an existing regular file p leaves an index that loads as the
\* entries it loaded before for other paths, unchanged and in their order,
\* followed by one entry for p with p's mode and the digest of p's bytes
C15_AddReplacesAndAppends ==
  [][(/\ Idle /\ run'.cmd = "add"
      /\ fileExists(disk, run'.arg) /\ ~isDirectory(disk, run'.arg)) =>
       LET p      == run'.arg
           before == readIndex(disk)
           after  == readIndex(WriteAll(disk, run'.todo))
       IN after = Append(SelectSeq(before, LAMBDA e : e.path # p),
                         [mode |-> getPermissions(disk, p),
                          sha  |-> computeSHA1(<<"blob", readFile(disk, p)>>),
                          path |-> p])
     ]_vars

\* C16: the index file that add saves loads as the list of (mode, digest,
\* path) that add saved
C16_IndexRoundTrip ==
  [][(run.cmd = "add" /\ run.todo # <<>> /\ Head(run.todo)[1] = "index") =>
       LET saved == Head(run.todo)[2]
       IN readIndex(disk') =
            [i \in 1..Len(saved) |->
               [mode |-> saved[i][1], sha |-> saved[i][2], path |-> saved[i][3]]]
     ]_vars

\* everything on the disk but the object store
Outside(fs) == [fs EXCEPT !.objects = <<>>, !.repoDir = TRUE]

\* C17: the digest write-tree prints is the same for every order in which a
\* directory yields its children; a second write-tree prints the same digest
\* and leaves the store as the first left it; and no write of write-tree
\* changes the working directory, the index, the refs or the log
C17_WriteTreeDeterministic ==
  [][/\ (Idle /\ run'.cmd = "write-tree") =>
          LET after == WriteAll(disk, run'.todo)
          IN /\ Stored(run'.out) \/ run'.todo # <<>>
             /\ run'.out \in DOMAIN after.objects
             /\ \A ord \in DirOrders :
                  /\ cmdWriteTree(disk, ord).out = run'.out
                  /\ cmdWriteTree(after, ord).out = run'.out
                  /\ WriteAll(after, cmdWriteTree(after, ord).todo) = after
     /\ run.cmd = "write-tree" => Outside(disk') = Outside(disk)
    ]_vars

\* a write-tree is under way whose tree, with a subtree, an earlier
\* write-tree has stored, in a repository with a staged entry
C17_Witness ==
  /\ run.cmd = "write-tree" /\ run.todo # <<>> /\ Stored(run.out)
  /\ \E i \in 1..Len(parseTree(disk, run.out)) :
       parseTree(disk, run.out)[i].mode = "040000"
  /\ readIndex(disk) # <<>>

\* C18: in a repository made by init, a commit that prints a digest appends
\* to the log exactly one record, with that digest, which is then what the
\* file HEAD's indirection names holds, and with the message it was given;
\* a record is appended only by the log write of such a commit, and no step
\* of any command removes or alters a record
C18_LogAppendOnly ==
  [][/\ (Idle /\ run'.cmd = "commit" /\ run'.out # NoSha /\ Initialised) =>
          LET after == WriteAll(disk, run'.todo)
          IN /\ Len(after.log) = Len(disk.log) + 1
             /\ SubSeq(after.log, 1, Len(disk.log)) = disk.log
             /\ after.log[Len(after.log)][1] = run'.out
             /\ after.log[Len(after.log)][3] = run'.arg[1]
             /\ getHEAD(after) = run'.out
     /\ (Idle /\ run'.cmd # "none" /\ ~(run'.cmd = "commit" /\ run'.out # NoSha)) =>
          \A i \in 1..Len(run'.todo) : run'.todo[i][1] # "log"
     /\ Len(disk'.log) >= Len(disk.log)
     /\ SubSeq(disk'.log, 1, Len(disk.log)) = disk.log
     /\ disk'.log # disk.log =>
          /\ run.cmd = "commit" /\ run.out # NoSha /\ Head(run.todo)[1] = "log"
          /\ Len(disk'.log) = Len(disk.log) + 1
    ]_vars

\* a second commit has finished: the log holds two records, the second with
\* the first's commit as parent
C18_Witness ==
  /\ Done("commit") /\ run.out # NoSha /\ Initialised
  /\ Len(disk.log) = 2
  /\ disk.log[2][1] = run.out /\ disk.log[2][2] = disk.log[1][1]

\* C19: init in a repository made by init prints that the repository is
\* already initialised, writes nothing and leaves the disk as it is
C19_InitIdempotent ==
  [][(Idle /\ run'.cmd = "init" /\ Initialised) =>
       /\ run'.out = AlreadyInitialized
       /\ run'.todo = <<>>
       /\ disk' = disk]_vars

\* a second init has run in a repository that holds a commit, a log record
\* and a staged entry
C19_Witness ==
  /\ Done("init") /\ run.out = AlreadyInitialized /\ Initialised
  /\ getHEAD(disk) # NoSha /\ disk.log # <<>> /\ readIndex(disk) # <<>>

\* C20: after a checkout of a valid commit the children of the root of the
\* working directory are the protected entries that were there before and
\* the names of the commit's tree, and no step of a checkout deletes .mygit
C20_CheckoutClearsRoot ==
  [][/\ (Idle /\ run'.cmd = "checkout" /\ run'.out # NoSha) =>
          LET after   == WriteAll(disk, run'.todo)
              entries == parseTree(disk, parseCommit(disk, run'.arg).treeSha)
          IN ChildNames(after, DOT) =
               (ChildNames(disk, DOT) \cap Protected)
                 \cup {entries[i].name : i \in 1..Len(entries)}
     /\ (run.cmd = "checkout" /\ disk.repoDir) => disk'.repoDir
    ]_vars

\* a checkout has finished: the directory d is gone, main.cpp and .mygit
\* are still there, and b is back
C20_Witness ==
  /\ Done("checkout") /\ run.out # NoSha
  /\ pD \notin DOMAIN disk.wd /\ pAB \notin DOMAIN disk.wd
  /\ pMain \in DOMAIN disk.wd /\ pB \in DOMAIN disk.wd
  /\ disk.repoDir

\* C21: a checkout of a digest that names no stored commit object (no
\* object, or a blob or a tree) reports the error and writes nothing, so
\* the working directory and the refs stay as they are
C21_CheckoutRejectsNonCommit ==
  [][(/\ Idle /\ run'.cmd = "checkout"
      /\ \/ readObject(disk, run'.arg) = <<>>
         \/ readObject(disk, run'.arg)[1] # "commit") =>
       /\ run'.err
       /\ run'.todo = <<>>
       /\ WriteAll(disk, run'.todo).wd = disk.wd
       /\ WriteAll(disk, run'.todo).refs = disk.refs
     ]_vars

\* C22: every entry the index loads with names a blob that the store holds
\* and that decodes, in every state, also between two writes of a command
C22_IndexEntriesAreStored ==
  \A i \in 1..Len(readIndex(disk)) :
    LET sha == readIndex(disk)[i].sha
    IN /\ Stored(sha)
       /\ readObject(disk, sha) # <<>>
       /\ readObject(disk, sha)[1] = "blob"

\* the index holds entries of two different blobs in a repository that has
\* a commit
C22_Witness ==
  /\ Initialised /\ disk.log # <<>>
  /\ \E i, j \in 1..Len(readIndex(disk)) :
       readIndex(disk)[i].sha # readIndex(disk)[j].sha

\* C23: the tree a commit writes has, for each entry of the index in its
\* order, one entry with the terminal component of the staged path as name
\* and the staged mode and digest, and nothing else; and after a checkout of
\* a commit every unprotected child of the root is named by the commit's tree
C23_TreeIsTheIndex ==
  [][/\ (Idle /\ run'.cmd = "commit" /\ run'.out # NoSha) =>
          LET staged == IF "index" \in disk.files THEN disk.index ELSE <<>>
              tree   == <<"tree", [i \in 1..Len(staged) |->
                           [mode |-> staged[i][1],
                            name |-> getFilename(staged[i][3]),
                            sha  |-> staged[i][2]]]>>
          IN /\ run'.out[2] = computeSHA1(tree)
             /\ \E k \in 1..Len(run'.todo) :
                  run'.todo[k] = writeObject(computeSHA1(tree), tree)
     /\ (Idle /\ run'.cmd = "checkout" /\ run'.out # NoSha) =>
          LET after   == WriteAll(disk, run'.todo)
              entries == parseTree(disk, parseCommit(disk, run'.arg).treeSha)
          IN \A p \in DOMAIN after.wd :
               (~HasSep(p) /\ p \notin Protected) =>
                 \E i \in 1..Len(entries) : entries[i].name = p
    ]_vars

\* C24: every call of decompressData returns; it returns the data of a
\* complete stream, and "" with the decompression-failed error otherwise;
\* and each turn of the loop after a short-buffer result has a strictly
\* larger output buffer than the turn before
C24_DecompressTerminates ==
  /\ <>(dec.pc = "done")
  /\ [](dec.pc = "done" =>
         /\ dec.ret = decompressData(dec.compressed)
         /\ dec.failed <=> dec.compressed.len # ZLen)
  /\ [][(dec.pc = "loop" /\ dec'.pc = "loop") =>
         dec'.uncompressedSize > dec.uncompressedSize]_vars

\* a call has returned the data after more than one turn of the loop
C24_Witness ==
  /\ dec.pc = "done" /\ dec.tries >= 2 /\ ~dec.failed
  /\ dec.ret = dec.compressed.zlib

====
